---- MODULE Spec2Model ----
(***************************************************************************)
(* Model of the @prybet/router package: the Router route table, the        *)
(* dispatch handler built by route(), and the ResponseBuilder.             *)
(*                                                                         *)
(* Two revisions of router.ts are present in the sources.  They differ     *)
(* only in ResponseBuilder.send; the variable `build` records which        *)
(* revision the running program was built from.                            *)
(***************************************************************************)
EXTENDS Integers, Sequences, FiniteSets, TLC

(* ------------------------------ bounds --------------------------------- *)

\* Largest number of entries in the route table.
MaxRoutes == 2

\* Largest number of dispatches whose handler is suspended at one time.
MaxInflight == 2

(* --------------------------- text as bytes ----------------------------- *)

\* Decimal digits of a natural number as character codes.
RECURSIVE Digits(_)
Digits(n) == IF n < 10 THEN <<48 + n>> ELSE Digits(n \div 10) \o <<48 + (n % 10)>>

\* "404"
Text404 == <<52, 48, 52>>

\* "Internal Server Error"
TextISE == <<73, 110, 116, 101, 114, 110, 97, 108, 32, 83, 101, 114, 118,
             101, 114, 32, 69, 114, 114, 111, 114>>

\* "null"
TextNull == <<110, 117, 108, 108>>

\* "hi"
TextHi == <<104, 105>>

(* ------------------------- JavaScript values --------------------------- *)

\* A value handed to send(): t is the runtime type, bytes the content of a
\* string or of a binary payload, ctype the type of a Blob, entries the
\* own properties of a plain object (name and string value, as bytes).
Value(t, bytes, ctype, entries) ==
    [t |-> t, bytes |-> bytes, ctype |-> ctype, entries |-> entries]

Undefined == Value("undefined", <<>>, "", <<>>)
JsNull == Value("null", <<>>, "", <<>>)
Str(b) == Value("string", b, "", <<>>)
Obj(e) == Value("object", <<>>, "", e)
ArrayBuf(b) == Value("ArrayBuffer", b, "", <<>>)
U8(b) == Value("Uint8Array", b, "", <<>>)
U8Clamped(b) == Value("Uint8ClampedArray", b, "", <<>>)
BlobOf(b, ct) == Value("Blob", b, ct, <<>>)

\* typeof data === "object"
TypeofObject(d) ==
    d.t \in {"null", "object", "ArrayBuffer", "Uint8Array",
             "Uint8ClampedArray", "Blob"}

\* JSON text of an indexed collection {"0":b0,"1":b1,...}
RECURSIVE JsonIndexed(_, _)
JsonIndexed(b, i) ==
    IF i > Len(b) THEN <<>>
    ELSE (IF i > 1 THEN <<44>> ELSE <<>>)
         \o <<34>> \o Digits(i - 1) \o <<34, 58>> \o Digits(b[i])
         \o JsonIndexed(b, i + 1)

\* JSON text of the properties of a plain object {"k":"v",...}
RECURSIVE JsonEntries(_, _)
JsonEntries(e, i) ==
    IF i > Len(e) THEN <<>>
    ELSE (IF i > 1 THEN <<44>> ELSE <<>>)
         \o <<34>> \o e[i][1] \o <<34, 58, 34>> \o e[i][2] \o <<34>>
         \o JsonEntries(e, i + 1)

\* JSON.stringify(data) for the values of the model.  An ArrayBuffer and a
\* Blob have no enumerable own properties; a typed array has its indices.
JsonStringify(d) ==
    CASE d.t = "null" -> TextNull
      [] d.t = "object" -> <<123>> \o JsonEntries(d.entries, 1) \o <<125>>
      [] d.t \in {"Uint8Array", "Uint8ClampedArray"} ->
             <<123>> \o JsonIndexed(d.bytes, 1) \o <<125>>
      [] OTHER -> <<123, 125>>

\* String(data) for a string
StringOf(d) == d.bytes

(* ------------------------------ headers -------------------------------- *)

\* Header names are case-insensitive: Headers stores them in lower case.
Lower(k) ==
    CASE k = "Content-Type" -> "content-type"
      [] k = "Access-Control-Allow-Origin" -> "access-control-allow-origin"
      [] k = "Access-Control-Allow-Methods" -> "access-control-allow-methods"
      [] k = "Access-Control-Allow-Headers" -> "access-control-allow-headers"
      [] k = "X-Id" -> "x-id"
      [] OTHER -> k

\* Router.HEADERS as the class is loaded
DefaultHEADERS ==
    [k \in {"Content-Type", "Access-Control-Allow-Origin",
            "Access-Control-Allow-Methods", "Access-Control-Allow-Headers"} |->
        CASE k = "Content-Type" -> "application/json"
          [] k = "Access-Control-Allow-Origin" -> "*"
          [] k = "Access-Control-Allow-Methods" -> "GET, POST, PUT, DELETE, OPTIONS"
          [] OTHER -> "Content-Type, Authorization"]

\* new Headers(init): a fresh header list copied from a plain object
NewHeaders(init) ==
    [n \in {Lower(k) : k \in DOMAIN init} |->
        LET k == CHOOSE k \in DOMAIN init : Lower(k) = n IN init[k]]

\* new Headers(): the empty header list
EmptyHeaders == [n \in {} |-> ""]

\* headers.set(key, value)
HeadersSet(h, key, value) ==
    [n \in DOMAIN h \cup {Lower(key)} |-> IF n = Lower(key) THEN value ELSE h[n]]

(* ------------------------------ Response ------------------------------- *)

\* Status codes for which the platform refuses a body
NullBodyStatus == {101, 204, 205, 304}

NoBody == [isNull |-> TRUE, bytes |-> <<>>]
Body(b) == [isNull |-> FALSE, bytes |-> b]

\* Outcome of an expression that yields a Response or throws
Ok(r) == [threw |-> FALSE, resp |-> r]
NoResponse == [status |-> 0, headers |-> EmptyHeaders, body |-> NoBody]
Threw == [threw |-> TRUE, resp |-> NoResponse]

\* The content type the platform derives from a string body
TextPlain == "text/plain;charset=UTF-8"

\* new Response(body, {status, headers}).  init is the BodyInit: isNull for
\* null/undefined, otherwise its bytes, and the content type the platform
\* derives from it ("" when it derives none).
NewResponse(init, derivedType, status, headers) ==
    IF status < 200 \/ status > 599 THEN Threw
    ELSE IF ~init.isNull /\ status \in NullBodyStatus THEN Threw
    ELSE Ok([status |-> status,
             headers |-> IF ~init.isNull /\ derivedType # ""
                            /\ "content-type" \notin DOMAIN headers
                         THEN HeadersSet(headers, "content-type", derivedType)
                         ELSE headers,
             body |-> init])

(* --------------------------- ResponseBuilder --------------------------- *)

\* The two revisions of the source
Builds == {"part_000", "router_ts"}

\* Status codes that should not have a response body
empties == {204, 304}

\* isBinary(data): the instanceof chain (the 16/32-bit and float arrays of
\* the chain are not among the values of the model)
isBinary(d) == d.t \in {"ArrayBuffer", "Uint8Array", "Blob"}

\* The content type the platform derives from a binary body: the type of
\* a Blob, none for a buffer
BinaryType(d) == IF d.t = "Blob" THEN d.ctype ELSE ""

\* constructor(): code 200, headers copied from Router.HEADERS
NewResponseBuilder(H) == [code |-> 200, headers |-> NewHeaders(H)]

\* status(code)
BuilderStatus(b, code) == [b EXCEPT !.code = code]

\* setHeader(key, value)
BuilderSetHeader(b, key, value) ==
    [b EXCEPT !.headers = HeadersSet(@, key, value)]

\* send(data = null) of the revision with binary support
SendBinaryAware(b, arg) ==
    LET data == IF arg.t = "undefined" THEN JsNull ELSE arg IN
    IF b.code \in empties
    THEN NewResponse(NoBody, "", b.code, b.headers)
    ELSE IF isBinary(data)
    THEN NewResponse(Body(data.bytes), BinaryType(data), b.code, b.headers)
    ELSE IF TypeofObject(data)
    THEN NewResponse(Body(JsonStringify(data)), TextPlain, b.code, b.headers)
    ELSE NewResponse(Body(StringOf(data)), TextPlain, b.code, b.headers)

\* send(data = "") of the revision under src/router.ts
SendPlain(b, arg) ==
    LET data == IF arg.t = "undefined" THEN Str(<<>>) ELSE arg IN
    IF TypeofObject(data)
    THEN NewResponse(Body(JsonStringify(data)), TextPlain, b.code, b.headers)
    ELSE NewResponse(Body(StringOf(data)), TextPlain, b.code, b.headers)

\* send(data) of the running build
Send(bld, b, arg) ==
    IF bld = "part_000" THEN SendBinaryAware(b, arg) ELSE SendPlain(b, arg)

(* ---------------------------- URL patterns ----------------------------- *)

\* A pathname is the sequence of its segments: "/users/123" is
\* <<"users", "123">>, "/users/" is <<"users", "">>, "/" is <<"">>.
\* A template is a sequence of parts: a literal segment, a named group
\* (":id") or the wildcard "*".
Lit(s) == [t |-> "lit", v |-> s]
Par(n) == [t |-> "par", v |-> n]
Wild == [t |-> "wild", v |-> "0"]

\* URLPattern.test on the pathname: literal text matches itself, a named
\* group matches one non-empty segment, the wildcard matches any remainder.
RECURSIVE MatchFrom(_, _, _)
MatchFrom(tpl, path, i) ==
    IF i > Len(tpl) THEN i > Len(path)
    ELSE IF tpl[i].t = "wild" THEN i <= Len(path)
    ELSE IF i > Len(path) THEN FALSE
    ELSE IF tpl[i].t = "lit" THEN tpl[i].v = path[i] /\ MatchFrom(tpl, path, i + 1)
    ELSE path[i] # "" /\ MatchFrom(tpl, path, i + 1)

\* Variant: the template is not anchored at the end of the pathname
RECURSIVE MatchPrefixFrom(_, _, _)
MatchPrefixFrom(tpl, path, i) ==
    IF i > Len(tpl) THEN TRUE
    ELSE IF tpl[i].t = "wild" THEN i <= Len(path)
    ELSE IF i > Len(path) THEN FALSE
    ELSE IF tpl[i].t = "lit" THEN tpl[i].v = path[i] /\ MatchPrefixFrom(tpl, path, i + 1)
    ELSE path[i] # "" /\ MatchPrefixFrom(tpl, path, i + 1)

MatchUnanchored(tpl, path) == MatchPrefixFrom(tpl, path, 1)

Match(tpl, path) == MatchFrom(tpl, path, 1)

\* pattern.exec(url)?.pathname.groups || {} : the named groups of a match
Groups(tpl, path) ==
    IF ~Match(tpl, path) THEN [n \in {} |-> ""]
    ELSE [n \in {tpl[i].v : i \in {j \in 1..Len(tpl) : tpl[j].t = "par"}} |->
            path[CHOOSE i \in 1..Len(tpl) : tpl[i].t = "par" /\ tpl[i].v = n]]

\* Object.fromEntries(url.searchParams.entries()): a later pair of the same
\* key replaces an earlier one
Queries(q) ==
    [k \in {q[i][1] : i \in 1..Len(q)} |->
        q[CHOOSE i \in 1..Len(q) :
            q[i][1] = k /\ \A j \in 1..Len(q) : q[j][1] = k => j <= i][2]]

(* ------------------------------- route() ------------------------------- *)

\* An entry of the route table first in table order that the request
\* matches starting at index i; 0 when there is none.
RECURSIVE RouteFrom(_, _, _)
RouteFrom(rs, req, i) ==
    IF i > Len(rs) THEN 0
    ELSE IF Match(rs[i].pattern, req.path) /\ req.method = rs[i].method THEN i
    ELSE RouteFrom(rs, req, i + 1)

\* Variant: the last matching entry wins
RouteIndexLast(rs, req) ==
    LET hits == {i \in 1..Len(rs) :
                    Match(rs[i].pattern, req.path) /\ req.method = rs[i].method}
    IN IF hits = {} THEN 0 ELSE CHOOSE i \in hits : \A j \in hits : j <= i

\* Variant: the method of the entry is not compared
RouteIndexAnyMethod(rs, req) ==
    LET hits == {i \in 1..Len(rs) : Match(rs[i].pattern, req.path)}
    IN IF hits = {} THEN 0 ELSE CHOOSE i \in hits : \A j \in hits : i <= j

\* Variant: the scan stops one entry short of the end of the table
RouteIndexShort(rs, req) ==
    IF rs = <<>> THEN 0 ELSE RouteFrom(SubSeq(rs, 1, Len(rs) - 1), req, 1)

RouteIndex(rs, req) == RouteFrom(rs, req, 1)

\* The default handler of route(): new Response("404", {status: 404})
NotFound == NewResponse(Body(Text404), TextPlain, 404, EmptyHeaders)

(* ------------------------- handlers and requests ----------------------- *)

\* What a user handler does with the builder it is given, as the sequence
\* of its steps: status(code), setHeader(key, value), a suspension
\* (await), and at the end either return res.send(data) or a failure.
OpStatus(c) == [op |-> "status", code |-> c, key |-> "", value |-> "", data |-> Undefined]
OpSetHeader(k, v) == [op |-> "setHeader", code |-> 0, key |-> k, value |-> v, data |-> Undefined]
OpAwait == [op |-> "await", code |-> 0, key |-> "", value |-> "", data |-> Undefined]
OpSend(d) == [op |-> "send", code |-> 0, key |-> "", value |-> "", data |-> d]
OpThrow == [op |-> "throw", code |-> 0, key |-> "", value |-> "", data |-> Undefined]

\* { "ok": "1" }
ObjOk == Obj(<< <<(<<111, 107>>), (<<49>>)>> >>)

PayloadHi == <<72, 105>>

\* Handlers that run to completion without suspending
ProgOk == <<OpSend(ObjOk)>>
ProgCreated == <<OpStatus(201), OpSetHeader("X-Id", "7"), OpSend(Str(TextHi))>>
ProgThrow == <<OpStatus(201), OpSetHeader("X-Id", "7"), OpThrow>>
ProgNoContent == <<OpStatus(204), OpSetHeader("X-Id", "7"), OpSend(Str(TextHi))>>

RoutingPrograms == {ProgOk, ProgCreated, ProgThrow}

\* The same handlers suspending between their steps
RECURSIVE Suspending(_)
Suspending(prog) ==
    IF Len(prog) <= 1 THEN prog
    ELSE <<Head(prog), OpAwait>> \o Suspending(Tail(prog))

AsyncPrograms ==
    {Suspending(p) : p \in {ProgCreated, ProgThrow, ProgNoContent}}
        \cup {ProgThrow, <<OpAwait>> \o ProgOk}

\* Handlers that make one optional status() call, one optional setHeader()
\* call and then send one value
StatusChoices == {<<>>, <<OpStatus(201)>>, <<OpStatus(204)>>, <<OpStatus(304)>>,
                  <<OpStatus(205)>>}
HeaderChoices == {<<>>, <<OpSetHeader("Content-Type", "application/octet-stream")>>,
                  <<OpSetHeader("X-Id", "7")>>}
SendValues == {Undefined, Str(TextHi), Str(<<>>), ObjOk, ArrayBuf(PayloadHi),
               U8(PayloadHi), U8(<<>>), U8Clamped(PayloadHi),
               BlobOf(PayloadHi, "text/plain")}
BuilderPrograms ==
    {s \o h \o <<OpSend(d)>> : s \in StatusChoices, h \in HeaderChoices, d \in SendValues}

Methods == {"GET", "POST", "PUT", "DELETE"}

\* Path templates handed to get/post/put/delete
TplUsers == <<Lit("users")>>
TplUser == <<Lit("users"), Par("id")>>
TplMe == <<Lit("users"), Lit("me")>>
Templates == {TplUsers, TplUser, TplMe}

\* Base paths handed to static()
StaticBases == {<<Lit("users")>>}

\* Pathnames of requests
Paths == {<<"users">>, <<"users", "123">>, <<"users", "me">>,
          <<"users", "123", "extra">>, <<"users", "">>}

\* A query string with a repeated key, as its key/value pairs in order
QueryTwice == << <<"key", "a">>, <<"key", "b">> >>

Request(m, p, q) == [method |-> m, path |-> p, query |-> q]
Requests ==
    {Request(m, p, <<>>) : m \in Methods \cup {"OPTIONS"}, p \in Paths}
        \cup {Request("GET", <<"users", "123">>, QueryTwice)}

\* What serveDir can answer: a file, its own 404, or a failure
FileResponse ==
    [status |-> 200,
     headers |-> HeadersSet(EmptyHeaders, "access-control-allow-origin", "*"),
     body |-> Body(PayloadHi)]
ServeDirOutcomes == {Ok(FileResponse), NotFound, Threw}

(* -------------------------------- state -------------------------------- *)

VARIABLES
    build,      \* the revision of router.ts the program runs
    HEADERS,    \* the static Router.HEADERS object
    routes,     \* Router.routes, the route table
    heap,       \* the live ResponseBuilder objects, by reference
    slots,      \* the dispatches whose handler is suspended
    last        \* the dispatch that settled last, as its caller saw it

vars == <<build, HEADERS, routes, heap, slots, last>>

NoParams == [n \in {} |-> ""]
NoRequest == Request("", <<>>, <<>>)
Idle == [busy |-> FALSE, req |-> NoRequest, hid |-> 0, ref |-> 0,
         prog |-> <<>>, rest |-> <<>>, params |-> NoParams, queries |-> NoParams]

\* A settled dispatch: the request, the entry whose handler ran (0 when no
\* handler ran), the arguments the handler got, what it did, and whether
\* the caller got a response or an exception.
Settled(req, hid, kind, params, queries, prog, out) ==
    [req |-> req, hid |-> hid, kind |-> kind, params |-> params,
     queries |-> queries, prog |-> prog, out |-> out]

Init ==
    /\ build \in Builds
    /\ HEADERS = DefaultHEADERS
    /\ routes = <<>>
    /\ heap = [r \in {} |-> NewResponseBuilder(DefaultHEADERS)]
    /\ slots = [s \in 1..MaxInflight |-> Idle]
    /\ last = Settled(NoRequest, 0, "none", NoParams, NoParams, <<>>, Ok(NoResponse))

(* ----------------------------- registration ---------------------------- *)

Entry(method, pattern, kind, id) ==
    [method |-> method, pattern |-> pattern, kind |-> kind, id |-> id]

\* addRoute(method, path, handler): push an entry whose handler wraps the
\* user handler.  The entry is identified by the rank of its registration.
addRoute(rs, method, path) ==
    Append(rs, Entry(method, path, "user", Len(rs) + 1))

\* get(path, handler)
Get(path) ==
    /\ Len(routes) < MaxRoutes
    /\ routes' = addRoute(routes, "GET", path)
    /\ UNCHANGED <<build, HEADERS, heap, slots, last>>

\* post(path, handler)
Post(path) ==
    /\ Len(routes) < MaxRoutes
    /\ routes' = addRoute(routes, "POST", path)
    /\ UNCHANGED <<build, HEADERS, heap, slots, last>>

\* put(path, handler)
Put(path) ==
    /\ Len(routes) < MaxRoutes
    /\ routes' = addRoute(routes, "PUT", path)
    /\ UNCHANGED <<build, HEADERS, heap, slots, last>>

\* delete(path, handler)
Delete(path) ==
    /\ Len(routes) < MaxRoutes
    /\ routes' = addRoute(routes, "DELETE", path)
    /\ UNCHANGED <<build, HEADERS, heap, slots, last>>

\* static(path, dir): push a GET entry on `${path}/*`
Static(base) ==
    /\ Len(routes) < MaxRoutes
    /\ routes' = Append(routes, Entry("GET", Append(base, Wild), "static", Len(routes) + 1))
    /\ UNCHANGED <<build, HEADERS, heap, slots, last>>

\* cors(): unshift an OPTIONS entry on "*"
Cors ==
    /\ Len(routes) < MaxRoutes
    /\ routes' = <<Entry("OPTIONS", <<Wild>>, "cors", Len(routes) + 1)>> \o routes
    /\ UNCHANGED <<build, HEADERS, heap, slots, last>>

(* ------------------------------- dispatch ------------------------------ *)

FreeSlots == {s \in 1..MaxInflight : ~slots[s].busy}

\* Variant: one builder per route entry, made outside the wrapper
NewRefPerEntry(s, hid) == MaxInflight + hid

\* new ResponseBuilder() inside the wrapper: each invocation gets the
\* reference of an object of its own
NewRef(s, hid) == s

\* The heap after the constructor has run for the object at ref
Allocate(h, ref, H) ==
    [r \in DOMAIN h \cup {ref} |-> IF r = ref THEN NewResponseBuilder(H) ELSE h[r]]

\* The heap once the invocation in slot s has dropped its builder
Release(h, s, ref) ==
    IF \E t \in 1..MaxInflight : t # s /\ slots[t].busy /\ slots[t].ref = ref
    THEN h
    ELSE [r \in DOMAIN h \ {ref} |-> h[r]]

\* Run the handler from its next step up to its next suspension or its end
RECURSIVE Run(_, _, _, _)
Run(bld, h, ref, prog) ==
    LET o == Head(prog) IN
    CASE o.op = "status" ->
             Run(bld, [h EXCEPT ![ref] = BuilderStatus(@, o.code)], ref, Tail(prog))
      [] o.op = "setHeader" ->
             Run(bld, [h EXCEPT ![ref] = BuilderSetHeader(@, o.key, o.value)], ref, Tail(prog))
      [] o.op = "await" ->
             [heap |-> h, rest |-> Tail(prog), done |-> FALSE, out |-> Threw]
      [] o.op = "send" ->
             [heap |-> h, rest |-> <<>>, done |-> TRUE, out |-> Send(bld, h[ref], o.data)]
      [] OTHER ->
             [heap |-> h, rest |-> <<>>, done |-> TRUE, out |-> Threw]

\* new Response("Internal Server Error", {status: 500})
ServerError == NewResponse(Body(TextISE), TextPlain, 500, EmptyHeaders)

\* Variant: return handler(...) without await, a rejection escapes
WrappedNoAwait(out, resumed) ==
    IF out.threw /\ ~resumed THEN ServerError ELSE out

\* Variant: no try/catch around the handler
WrappedNoCatch(out, resumed) == out

\* try { return await handler(...) } catch { return 500 }: a failure of the
\* handler is caught whether it is thrown before the first suspension or
\* is the rejection of the promise the handler returned
Wrapped(out, resumed) == IF out.threw THEN ServerError ELSE out

\* The wrapper runs the handler of slot s on; it settles or suspends again
Advance(s, inv, h, prog, resumed) ==
    LET r == Run(build, h, inv.ref, prog) IN
    IF r.done
    THEN /\ last' = Settled(inv.req, inv.hid, "user", inv.params, inv.queries,
                            inv.prog, Wrapped(r.out, resumed))
         /\ heap' = Release(r.heap, s, inv.ref)
         /\ slots' = [slots EXCEPT ![s] = Idle]
    ELSE /\ slots' = [slots EXCEPT ![s] = [inv EXCEPT !.rest = r.rest]]
         /\ heap' = r.heap
         /\ UNCHANGED last

\* Variant: the preflight answer without the default headers
CorsHandlerBare(H) == NewResponse(NoBody, "", 204, EmptyHeaders)

\* The handler of the entry cors() adds:
\* new Response(null, {status: 204, headers: new Headers(Router.HEADERS)})
CorsHandler(H) == NewResponse(NoBody, "", 204, NewHeaders(H))

\* handler(req) when no entry matches: the default handler answers
DispatchNotFound(req) ==
    /\ RouteIndex(routes, req) = 0
    /\ last' = Settled(req, 0, "none", NoParams, NoParams, <<>>, NotFound)
    /\ UNCHANGED <<build, HEADERS, routes, heap, slots>>

\* handler(req) when the first matching entry is the one cors() added
DispatchCors(req) ==
    /\ RouteIndex(routes, req) # 0
    /\ LET e == routes[RouteIndex(routes, req)] IN
        /\ e.kind = "cors"
        /\ last' = Settled(req, e.id, "cors", NoParams, NoParams, <<>>,
                           CorsHandler(HEADERS))
    /\ UNCHANGED <<build, HEADERS, routes, heap, slots>>

\* handler(req) when the first matching entry is a static mount: the
\* answer of serveDir, or its failure, goes to the caller as it is
DispatchStatic(req, served) ==
    /\ RouteIndex(routes, req) # 0
    /\ LET e == routes[RouteIndex(routes, req)] IN
        /\ e.kind = "static"
        /\ last' = Settled(req, e.id, "static", NoParams, NoParams, <<>>, served)
    /\ UNCHANGED <<build, HEADERS, routes, heap, slots>>

\* handler(req) when the first matching entry was added by addRoute: the
\* wrapper computes queries and params, makes a builder and calls the user
\* handler, which behaves as prog
DispatchHandler(req, prog) ==
    /\ RouteIndex(routes, req) # 0
    /\ FreeSlots # {}
    /\ LET e == routes[RouteIndex(routes, req)]
           s == CHOOSE t \in FreeSlots : \A u \in FreeSlots : t <= u
           ref == NewRef(s, e.id)
           inv == [busy |-> TRUE, req |-> req, hid |-> e.id, ref |-> ref,
                   prog |-> prog, rest |-> prog,
                   params |-> Groups(e.pattern, req.path),
                   queries |-> Queries(req.query)]
       IN /\ e.kind = "user"
          /\ Advance(s, inv, Allocate(heap, ref, HEADERS), prog, FALSE)
    /\ UNCHANGED <<build, HEADERS, routes>>

\* A suspended handler is resumed
Resume(s) ==
    /\ slots[s].busy
    /\ Advance(s, slots[s], heap, slots[s].rest, TRUE)
    /\ UNCHANGED <<build, HEADERS, routes>>

(* ---------------------------- specifications --------------------------- *)

Register ==
    \/ \E path \in Templates : Get(path)
    \/ \E path \in {TplUsers} : Post(path)
    \/ \E path \in {TplUser} : Put(path)
    \/ \E path \in {TplUser} : Delete(path)
    \/ \E base \in StaticBases : Static(base)
    \/ Cors

\* Routing: every registration call, every request, handlers that do not
\* suspend
Next ==
    \/ Register
    \/ \E req \in Requests : DispatchNotFound(req)
    \/ \E req \in Requests : DispatchCors(req)
    \/ \E req \in Requests, served \in ServeDirOutcomes : DispatchStatic(req, served)
    \/ \E req \in Requests, prog \in RoutingPrograms : DispatchHandler(req, prog)

Spec == Init /\ [][Next]_vars

\* Interleaving: requests for /users/123 whose handlers suspend
AsyncRequests == {Request(m, <<"users", "123">>, <<>>) : m \in {"GET", "OPTIONS"}}

NextAsync ==
    \/ Get(TplUser)
    \/ \E base \in StaticBases : Static(base)
    \/ Cors
    \/ \E req \in AsyncRequests : DispatchNotFound(req)
    \/ \E req \in AsyncRequests : DispatchCors(req)
    \/ \E req \in AsyncRequests, served \in ServeDirOutcomes : DispatchStatic(req, served)
    \/ \E req \in AsyncRequests, prog \in AsyncPrograms : DispatchHandler(req, prog)
    \/ \E s \in 1..MaxInflight : Resume(s)

SpecAsync == Init /\ [][NextAsync]_vars

\* Response building: one route, handlers that use the builder in every way
BuilderRequests == {Request("GET", <<"users">>, <<>>)}

NextBuilder ==
    \/ Get(TplUsers)
    \/ \E req \in BuilderRequests : DispatchNotFound(req)
    \/ \E req \in BuilderRequests, prog \in BuilderPrograms : DispatchHandler(req, prog)

SpecBuilder == Init /\ [][NextBuilder]_vars

TypeOK ==
    /\ build \in Builds
    /\ Len(routes) <= MaxRoutes
    /\ \A s \in 1..MaxInflight : slots[s].busy => slots[s].ref \in DOMAIN heap

(* ------------------------------ properties ----------------------------- *)

\* The entry e is one the request can be routed to
Matches(e, req) == e.method = req.method /\ Match(e.pattern, req.path)

\* A dispatch settles in this step; last' is what its caller sees and, for
\* a handler that did not suspend, routes is the table it was routed by
Settles == last' # last

\* What a handler's builder calls amount to on a builder of its own
RECURSIVE ApplyOps(_, _)
ApplyOps(b, ops) ==
    IF ops = <<>> THEN b
    ELSE LET o == Head(ops) IN
         ApplyOps(IF o.op = "status" THEN [b EXCEPT !.code = o.code]
                  ELSE IF o.op = "setHeader"
                  THEN [b EXCEPT !.headers = HeadersSet(@, o.key, o.value)]
                  ELSE b,
                  Tail(ops))

FreshBuilder == [code |-> 200, headers |-> NewHeaders(DefaultHEADERS)]

\* The builder of a handler behaving as prog when it reaches its last step
OwnBuilder(prog) == ApplyOps(FreshBuilder, SubSeq(prog, 1, Len(prog) - 1))

Final(prog) == prog[Len(prog)]

\* The handler behaving as prog fails: it throws or rejects, or its send
\* is refused by the platform
Fails(prog) ==
    \/ Final(prog).op = "throw"
    \/ Final(prog).op = "send" /\ Send(build, OwnBuilder(prog), Final(prog).data).threw

\* The response with status 500 and the fixed body, and nothing else
Response500 ==
    [status |-> 500, headers |-> ("content-type" :> TextPlain), body |-> Body(TextISE)]

\* The status a handler set, 200 when it set none
RECURSIVE StatusSet(_, _)
StatusSet(ops, c) ==
    IF ops = <<>> THEN c
    ELSE StatusSet(Tail(ops), IF Head(ops).op = "status" THEN Head(ops).code ELSE c)

\* C1: first match wins.  When two entries added by get/post/put/delete
\* have the same method and the same pattern, no dispatch, settled or
\* suspended, ever invokes the handler of the one registered later.
C1_FirstMatchWins ==
    \A i, j \in 1..Len(routes) :
        (/\ i < j
         /\ routes[i].kind = "user" /\ routes[j].kind = "user"
         /\ routes[i].method = routes[j].method
         /\ routes[i].pattern = routes[j].pattern)
        => /\ last.hid # routes[j].id
           /\ \A s \in 1..MaxInflight : slots[s].busy => slots[s].hid # routes[j].id

\* A request that both entries of a duplicated registration match has been
\* answered by the handler of the first.
C1_Witness ==
    \E i, j \in 1..Len(routes) :
        /\ i < j
        /\ routes[i].kind = "user" /\ routes[j].kind = "user"
        /\ routes[i].method = routes[j].method
        /\ routes[i].pattern = routes[j].pattern
        /\ Matches(routes[j], last.req)
        /\ last.hid = routes[i].id

HasCors(rs) == \E i \in 1..Len(rs) : rs[i].kind = "cors"

\* Status 204, no body, exactly the default headers
PreflightResponse ==
    [status |-> 204, headers |-> NewHeaders(DefaultHEADERS), body |-> NoBody]

\* C2: once cors() has been called, before or after the other
\* registrations, every OPTIONS request, whatever its path, is answered
\* with status 204, no body and exactly the default headers, by the entry
\* cors() added, and no handler of another entry is invoked or suspended
\* for it.
C2_CorsPreflight ==
    [][(HasCors(routes) /\ Settles /\ last'.req.method = "OPTIONS")
          => /\ last'.out = Ok(PreflightResponse)
             /\ last'.kind = "cors"
             /\ slots' = slots]_vars

\* An OPTIONS request has been answered by the entry of a cors() call that
\* came after another registration.
C2_Witness ==
    /\ Len(routes) >= 2
    /\ routes[1].kind = "cors" /\ routes[1].id = 2
    /\ last.kind = "cors" /\ last.hid = 2
    /\ last.req.method = "OPTIONS"
    /\ last.out.resp.status = 204

\* C3: a request that no entry of the route table matches (by method and
\* path) is answered with status 404 and body "404", and no registered
\* handler is invoked for it.  (Entries are never removed, so a request no
\* entry matches now was matched by none when it was dispatched.)
C3_NotFound ==
    /\ (last.req # NoRequest /\ \A i \in 1..Len(routes) : ~Matches(routes[i], last.req))
          => /\ ~last.out.threw
             /\ last.out.resp.status = 404
             /\ last.out.resp.body = Body(Text404)
             /\ last.hid = 0
    /\ \A s \in 1..MaxInflight :
          slots[s].busy => \E i \in 1..Len(routes) : Matches(routes[i], slots[s].req)

\* A request whose path is registered, but only under another method, got
\* the 404.
C3_Witness ==
    /\ last.req # NoRequest
    /\ \A i \in 1..Len(routes) : ~Matches(routes[i], last.req)
    /\ \E i \in 1..Len(routes) :
          routes[i].kind = "user" /\ Match(routes[i].pattern, last.req.path)
    /\ last.out.resp.status = 404

\* C4: when the handler of an entry added by get/post/put/delete fails,
\* by a throw before it suspends or by a rejection after, or because its
\* send is refused, the caller gets no exception but the response with
\* status 500 and the body "Internal Server Error", which carries neither
\* the status nor a header the handler had set on its builder.
C4_HandlerFailure ==
    (last.kind = "user" /\ Fails(last.prog))
        => /\ ~last.out.threw
           /\ last.out.resp = Response500
           /\ "x-id" \notin DOMAIN last.out.resp.headers

\* A handler that set status 201 and a header, suspended and then
\* rejected has been answered with the 500.
C4_Witness ==
    /\ last.kind = "user"
    /\ last.prog = Suspending(ProgThrow)
    /\ last.out.resp.status = 500

\* C5 as stated: whatever the route table and the request, the caller of
\* the dispatch handler gets a response and never an exception.
C5_NeverRaises ==
    last.req # NoRequest => ~last.out.threw

\* C5 amended: the caller of the dispatch handler gets an exception only
\* from a static mount whose serveDir failed; every other dispatch (no
\* match, the cors entry, a handler that returns, throws or rejects) gives
\* a response with a status between 200 and 599.
C5_RaisesOnlyFromStatic ==
    (last.req # NoRequest /\ last.kind # "static")
        => /\ ~last.out.threw
           /\ last.out.resp.status \in 200..599

\* A handler that rejected after suspending has been answered with a
\* response while a static mount is in the table.
C5_Witness ==
    /\ last.kind = "user"
    /\ Final(last.prog).op = "throw"
    /\ OpAwait \in {last.prog[i] : i \in 1..Len(last.prog)}
    /\ ~last.out.threw
    /\ \E i \in 1..Len(routes) : routes[i].kind = "static"

\* The template has literal segments only
IsLiteral(tpl) == \A i \in 1..Len(tpl) : tpl[i].t = "lit"

\* The pathname a literal template spells
LiteralPath(tpl) == [i \in 1..Len(tpl) |-> tpl[i].v]

\* C6 as stated: for every entry added by get/post/put/delete whose path
\* has no parameter, after any registrations, a request with that method
\* and path is answered by that entry's handler, with its result and the
\* status it set, 200 by default.
C6_ExactRoute ==
    [][\A i \in 1..Len(routes) :
          (/\ Settles
           /\ routes[i].kind = "user" /\ IsLiteral(routes[i].pattern)
           /\ last'.req.method = routes[i].method
           /\ last'.req.path = LiteralPath(routes[i].pattern))
          => /\ last'.hid = routes[i].id
             /\ ~last'.out.threw
             /\ ~Fails(last'.prog)
                   => last'.out.resp.status = StatusSet(last'.prog, 200)]_vars

\* C6 amended: the same, provided no entry earlier in the table matches
\* the request (an earlier duplicate, a parameterised route or a static
\* mount covering the path) and the handler does not fail: then the
\* response is the one the handler built, with the status it set, 200 by
\* default.  When the handler fails the answer is the 500.
C6_ExactRouteUnshadowed ==
    [][\A i \in 1..Len(routes) :
          (/\ Settles
           /\ routes[i].kind = "user" /\ IsLiteral(routes[i].pattern)
           /\ last'.req.method = routes[i].method
           /\ last'.req.path = LiteralPath(routes[i].pattern)
           /\ \A k \in 1..(i - 1) : ~Matches(routes[k], last'.req))
          => /\ last'.hid = routes[i].id
             /\ ~last'.out.threw
             /\ IF Fails(last'.prog)
                THEN last'.out.resp.status = 500
                ELSE /\ last'.out.resp.status = StatusSet(last'.prog, 200)
                     /\ last'.out = Send(build, OwnBuilder(last'.prog),
                                         Final(last'.prog).data)]_vars

\* A literal route registered after a parameterised one that does not
\* cover it has answered with status 200.
C6_Witness ==
    /\ Len(routes) >= 2
    /\ ~IsLiteral(routes[1].pattern)
    /\ routes[2].kind = "user" /\ IsLiteral(routes[2].pattern)
    /\ last.hid = routes[2].id
    /\ last.req.path = LiteralPath(routes[2].pattern)
    /\ last.prog = ProgOk
    /\ last.out.resp.status = 200

\* The template has a named group
HasParam(tpl) == \E i \in 1..Len(tpl) : tpl[i].t = "par"

\* C9: path parameters.  For an entry registered with "/users/:id":
\* a request of its method for "/users/<seg>" with <seg> not empty, which
\* no earlier entry matches, invokes its handler with the parameters
\* {id: <seg>}; its handler is never invoked for a path of another number
\* of segments or with an empty segment; and when every entry of the table
\* has that template, a path with fewer or more segments is answered 404
\* with no handler invoked.
C9_PathParameters ==
    [][Settles =>
        /\ \A i \in 1..Len(routes) :
              (/\ routes[i].kind = "user" /\ routes[i].pattern = TplUser
               /\ last'.req.method = routes[i].method
               /\ Len(last'.req.path) = 2
               /\ last'.req.path[1] = "users" /\ last'.req.path[2] # ""
               /\ \A k \in 1..(i - 1) : ~Matches(routes[k], last'.req))
              => /\ last'.hid = routes[i].id
                 /\ last'.params = ("id" :> last'.req.path[2])
        /\ \A i \in 1..Len(routes) :
              (routes[i].pattern = TplUser /\ last'.hid = routes[i].id)
              => /\ Len(last'.req.path) = 2
                 /\ last'.req.path[2] # ""
                 /\ last'.params = ("id" :> last'.req.path[2])
        /\ ((\A i \in 1..Len(routes) : routes[i].pattern = TplUser)
               /\ Len(last'.req.path) # 2)
              => /\ last'.hid = 0
                 /\ last'.out.resp.status = 404]_vars

\* "/users/123" has been routed to the handler of "/users/:id" with the
\* parameters {id: "123"}.
C9_Witness ==
    /\ last.kind = "user"
    /\ \E i \in 1..Len(routes) : routes[i].pattern = TplUser /\ routes[i].id = last.hid
    /\ last.req.path = <<"users", "123">>
    /\ last.params = ("id" :> "123")
    /\ last.out.resp.status = 200

\* The builder calls the handler in slot s has made so far
Executed(s) == SubSeq(slots[s].prog, 1, Len(slots[s].prog) - Len(slots[s].rest))

\* C10: isolation of dispatches in flight.  The builder of every suspended
\* handler holds exactly what that handler's own calls put on a builder
\* that started with status 200 and the default headers; every settled
\* response is the one the handler's own calls amount to; and no step
\* changes Router.HEADERS, nor does a step of a dispatch change the route
\* table.
C10_Isolation ==
    /\ [](/\ \A s \in 1..MaxInflight :
                slots[s].busy => heap[slots[s].ref] = ApplyOps(FreshBuilder, Executed(s))
          /\ (last.kind = "user" /\ ~Fails(last.prog))
                => last.out = Send(build, OwnBuilder(last.prog), Final(last.prog).data)
          /\ (last.kind = "user" /\ Fails(last.prog))
                => last.out = Ok(Response500))
    /\ [][/\ HEADERS' = HEADERS
          /\ (last' # last \/ slots' # slots \/ heap' # heap) => routes' = routes]_vars

\* A response with status 200 and the default headers has settled while
\* another handler is suspended with status 201 and a header of its own on
\* its builder.
C10_Witness ==
    /\ last.kind = "user"
    /\ last.out.resp.status = 200
    /\ last.out.resp.headers = NewHeaders(DefaultHEADERS)
    /\ \E s \in 1..MaxInflight :
          /\ slots[s].busy
          /\ heap[slots[s].ref].code = 201
          /\ "x-id" \in DOMAIN heap[slots[s].ref].headers
    /\ HEADERS = DefaultHEADERS

\* The value is one of the binary payloads: a buffer, a typed array, a Blob
IsPayload(d) == d.t \in {"ArrayBuffer", "Uint8Array", "Uint8ClampedArray", "Blob"}

\* C7: send with a binary payload and a status that allows a body passes
\* the payload through: the body is the payload's bytes, the Content-Type
\* is the one the handler set, the status is 200 unless changed.
C7_BinaryPassThrough ==
    (/\ last.kind = "user"
     /\ Final(last.prog).op = "send" /\ IsPayload(Final(last.prog).data)
     /\ OwnBuilder(last.prog).code \notin NullBodyStatus)
    => /\ ~last.out.threw
       /\ last.out.resp.body = Body(Final(last.prog).data.bytes)
       /\ last.out.resp.headers["content-type"] = OwnBuilder(last.prog).headers["content-type"]
       /\ last.out.resp.status = StatusSet(last.prog, 200)

\* C8: when the builder's status is 204 or 304, send gives a response with
\* no body whatever its argument, with that status and every header
\* accumulated.
C8_NoBodyStatus ==
    (/\ last.kind = "user"
     /\ Final(last.prog).op = "send"
     /\ OwnBuilder(last.prog).code \in {204, 304})
    => /\ ~last.out.threw
       /\ last.out.resp.body = NoBody
       /\ last.out.resp.status = OwnBuilder(last.prog).code
       /\ last.out.resp.headers = OwnBuilder(last.prog).headers

====
